---- MODULE Spec2Model ----
(***************************************************************************)
(* Model of the batch HTML -> Word converter (src/1.py).                   *)
(*                                                                         *)
(* Spec      : one run of main(): construction, dependency check, the      *)
(*             directory walk with one conversion per discovered file,     *)
(*             report, summary, the exception handlers and safe_exit.      *)
(* SpecImage : _insert_image applied to img elements over a small          *)
(*             filesystem of image files.                                  *)
(* SpecTable : the table branch of the element loop applied to tables with *)
(*             rows of unequal length and a nested table.                  *)
(* SpecRead  : read_html_file and detect_encoding applied to one file.     *)
(* SpecFolder: find_associated_files_folder applied to one html file and   *)
(*             the listing of its directory.                               *)
(* SpecPara  : the p branch of the element loop applied to one paragraph.  *)
(* Paths are sequences of path components; file names are sequences of     *)
(* one-character strings, so that lower(), endswith() and splitext() are   *)
(* computed as the code computes them.                                     *)
(***************************************************************************)
EXTENDS Integers, Sequences, FiniteSets, TLC

VARIABLES
    cwd,            \* os.getcwd(): absolute path of the working directory
    tree,           \* the input files below cwd: records [dir, name]
    pc,             \* position of the run inside main()/run()
    total_files,    \* self.total_files
    success_files,  \* self.success_files
    failed_files,   \* self.failed_files (a list of html paths)
    output_dir,     \* self.output_dir
    stack,          \* os.walk: directories still to be visited (depth first)
    cur,            \* os.walk: <<root>> while a directory is being iterated, <<>> otherwise
    seen,           \* files of the tree the inner loop has iterated over
    dirs,           \* directories that exist on the filesystem
    docs,           \* written .docx files: destination path -> [src, size]
    calls,          \* the invocations of convert_html_to_word made so far
    conv,           \* per discovered file: what its conversion observed and returned
    failure,        \* how the run failed at top level, "none" if it has not
    excAt,          \* where the exception that reached run()'s handler was raised
    written,        \* run artifacts written in the working directory, in order
    escaping,       \* an exception is propagating out of run() to main()
    exits,          \* number of safe_exit invocations made so far
    imgFiles,       \* _insert_image: the files below the html file's directory
    imgFolder,      \* _insert_image: files_folder, relative to the html directory
    imgDoc,         \* _insert_image: the paragraphs of the document being built
    imgLog,         \* _insert_image: the img elements handled so far
    tblQueue,       \* table elements body.find_all has still to hand to the mapper
    tblLog,         \* table elements handled so far, each with the grid built for it
    rdFile,         \* read_html_file: the file being read and what the detector says of it
    rdOut,          \* read_html_file: <<>> before the call, <<result>> after it
    fdHtml,         \* find_associated_files_folder: the html file's name
    fdListing,      \* find_associated_files_folder: os.listdir(html_dir), in its order
    fdOut,          \* find_associated_files_folder: <<>> before the call, <<result>> after it
    paQueue,        \* p elements body.find_all has still to hand to the mapper
    paDoc,          \* the paragraphs of the document being built
    paLog           \* p elements handled so far, each with what was added for it

runVars == <<cwd, tree, pc, total_files, success_files, failed_files, output_dir,
             stack, cur, seen, dirs, docs, calls, conv, failure, excAt, written,
             escaping, exits>>

imgVars == <<imgFiles, imgFolder, imgDoc, imgLog>>

tblVars == <<tblQueue, tblLog>>

rdVars == <<rdFile, rdOut>>

fdVars == <<fdHtml, fdListing, fdOut>>

paVars == <<paQueue, paDoc, paLog>>

vars == <<runVars, imgVars, tblVars, rdVars, fdVars, paVars>>

----------------------------------------------------------------------------
(* Bounds of the model *)

\* largest number of files in an input tree
MaxTreeFiles == 3

----------------------------------------------------------------------------
(* Strings as character sequences *)

LowerChar(c) ==
    CASE c = "A" -> "a" [] c = "B" -> "b" [] c = "H" -> "h" [] c = "T" -> "t"
      [] c = "M" -> "m" [] c = "L" -> "l" [] c = "P" -> "p" [] c = "F" -> "f"
      [] c = "I" -> "i" [] c = "E" -> "e" [] c = "S" -> "s" [] c = "G" -> "g"
      [] OTHER -> c

\* str.lower()
Lower(s) == [i \in 1..Len(s) |-> LowerChar(s[i])]

\* str.endswith(suffix)
EndsWith(s, suffix) ==
    /\ Len(s) >= Len(suffix)
    /\ SubSeq(s, Len(s) - Len(suffix) + 1, Len(s)) = suffix

\* str.rfind('.') as a 1-based index, 0 when there is no dot
LastDot(s) ==
    LET D == {i \in 1..Len(s) : s[i] = "."}
    IN  IF D = {} THEN 0 ELSE CHOOSE i \in D : \A j \in D : j <= i

\* os.path.splitext(name)[0]: the name up to its last dot; a name whose only
\* dots are leading dots has no extension
SplitextBase(s) ==
    LET d == LastDot(s)
    IN  IF d > 0 /\ (\E i \in 1..(d - 1) : s[i] # ".")
        THEN SubSeq(s, 1, d - 1)
        ELSE s

ExtHtml == <<".", "h", "t", "m", "l">>
ExtHtm  == <<".", "h", "t", "m">>
ExtDocx == <<".", "d", "o", "c", "x">>

\* file.lower().endswith(('.html', '.htm'))
IsHtml_CaseSensitive(name) == EndsWith(name, ExtHtml) \/ EndsWith(name, ExtHtm)

IsHtml(name) == EndsWith(Lower(name), ExtHtml) \/ EndsWith(Lower(name), ExtHtm)

\* os.path.splitext(file)[0] + '.docx'
DocxName(name) == SplitextBase(name) \o ExtDocx

----------------------------------------------------------------------------
(* Paths *)

\* self.output_dir before process_directory has set it
NoneDir == << <<"N", "o", "n", "e">> >>

\* os.path.dirname of a directory path; the root is its own parent
Dirname(p) == IF p = <<>> THEN <<>> ELSE SubSeq(p, 1, Len(p) - 1)

IsPrefix(p, q) == Len(p) <= Len(q) /\ SubSeq(q, 1, Len(p)) = p

Prefixes(p) == {SubSeq(p, 1, n) : n \in 0..Len(p)}

D_word     == <<"w", "o", "r", "d">>
D_pycache  == <<"_", "_", "p", "y", "c", "a", "c", "h", "e", "_", "_">>
D_git      == <<".", "g", "i", "t">>
D_logs     == <<"l", "o", "g", "s">>
D_data     == <<"d", "a", "t", "a">>
D_in       == <<"i", "n">>
D_sub      == <<"s", "u", "b">>
D_a_files  == <<"a", "_", "f", "i", "l", "e", "s">>
SuffixFiles == <<"_", "f", "i", "l", "e", "s">>

\* self.output_dir = os.path.join(os.path.dirname(current_dir), 'word')
OutputRoot(current_dir) == Dirname(current_dir) \o <<D_word>>

\* the two dirs[:] filters of the walk: not d.endswith('_files'), and
\* d not in ['word', '__pycache__', '.git', 'logs']
KeepDir_NoSuffixFilter(d) == d \notin {D_word, D_pycache, D_git, D_logs}

KeepDir(d) ==
    /\ ~EndsWith(d, SuffixFiles)
    /\ d \notin {D_word, D_pycache, D_git, D_logs}

\* html_path = os.path.join(root, file), root = current_dir joined with rel
HtmlPath(current_dir, f) == current_dir \o f.dir \o <<f.name>>

\* output_subdir = os.path.join(self.output_dir, rel_path)
OutputSubdir(out, f) == out \o f.dir

\* docx_path = os.path.join(output_subdir, docx_name)
DocxPath(out, f) == OutputSubdir(out, f) \o <<DocxName(f.name)>>

----------------------------------------------------------------------------
(* Inputs *)

N_a_html  == <<"a", ".", "h", "t", "m", "l">>
N_a_htm   == <<"a", ".", "h", "t", "m">>
N_B_HTML  == <<"B", ".", "H", "T", "M", "L">>
N_n_xhtml == <<"n", ".", "x", "h", "t", "m", "l">>
N_c_htm   == <<"c", ".", "h", "t", "m">>
N_d_html  == <<"d", ".", "h", "t", "m", "l">>

\* candidate files of an input tree: matching and non-matching names, at the
\* top, in a subdirectory, and beneath directories the walk filters out
Universe ==
    { [dir |-> <<>>,               name |-> N_a_html],
      [dir |-> <<>>,               name |-> N_a_htm],
      [dir |-> <<D_sub>>,          name |-> N_B_HTML],
      [dir |-> <<>>,               name |-> N_n_xhtml],
      [dir |-> <<D_sub>>,          name |-> N_a_html],
      [dir |-> <<D_a_files>>,      name |-> N_c_htm],
      [dir |-> <<D_sub, D_logs>>,  name |-> N_d_html] }

Trees == {t \in SUBSET Universe : Cardinality(t) <= MaxTreeFiles}

\* working directories: an ordinary one, one that is itself named 'word',
\* and the filesystem root
Cwds == { <<D_data, D_in>>, <<D_data, D_word>>, <<>> }

\* the directories of the input tree, as relative paths
TreeDirs(t) == UNION {Prefixes(f.dir) : f \in t}

SubdirsOf(t, d) == {e \in TreeDirs(t) : Len(e) = Len(d) + 1 /\ IsPrefix(d, e)}

FilesIn(t, d) == {f \in t : f.dir = d}

\* all orders in which a directory listing can return the set S
Range0(q) == {q[i] : i \in 1..Len(q)}

Perms(S) ==
    {p \in [1..Cardinality(S) -> S] : \A i, j \in 1..Cardinality(S) : p[i] = p[j] => i = j}

----------------------------------------------------------------------------
(* convert_html_to_word *)

\* os.path.getsize(docx_path) > 1024
MinDocxSize == 1024

Whitespace == {" ", "\n", "\t"}

RECURSIVE LStrip(_)
LStrip(s) == IF s # <<>> /\ Head(s) \in Whitespace THEN LStrip(Tail(s)) ELSE s

RECURSIVE RStrip(_)
RStrip(s) ==
    IF s # <<>> /\ s[Len(s)] \in Whitespace THEN RStrip(SubSeq(s, 1, Len(s) - 1)) ELSE s

\* str.strip()
Strip(s) == RStrip(LStrip(s))

\* what read_html_file can hand to the mapper
C_empty == <<>>
C_blank == <<" ", "\n">>
C_text  == <<" ", "<", "p", ">", "x">>
Contents == {C_empty, C_blank, C_text}

\* not html_content or not html_content.strip()
IsBlank(content) == content = <<>> \/ Strip(content) = <<>>

\* what the environment does to one conversion: the mapper (parse, element
\* loop) may raise, doc.save may raise, and after a save the destination
\* exists or not, with some size
SavedEnvs ==
    {[mapper |-> "ok", save |-> "ok", exists |-> TRUE, size |-> z] :
        z \in {MinDocxSize, MinDocxSize + 1}}
    \cup {[mapper |-> "ok", save |-> "ok", exists |-> FALSE, size |-> 0]}

ConvEnvs ==
    SavedEnvs
    \cup {[mapper |-> "raise", save |-> "ok", exists |-> FALSE, size |-> 0],
          [mapper |-> "ok", save |-> "raise", exists |-> FALSE, size |-> 0]}

\* the verification after doc.save
VerifyOutput_AtLeast(exists, size) == exists /\ size >= MinDocxSize

VerifyOutput(exists, size) == exists /\ size > MinDocxSize

\* the return value of convert_html_to_word and whether doc.save completed
ConvertHtmlToWord(content, env) ==
    IF IsBlank(content) THEN [ret |-> FALSE, saved |-> FALSE]
    ELSE IF env.mapper = "raise" \/ env.save = "raise"
         THEN [ret |-> FALSE, saved |-> FALSE]
    ELSE [ret |-> VerifyOutput(env.exists, env.size), saved |-> TRUE]

\* the if/else after the call: success_files += 1, or failed_files.append
RecordResult_AppendAlways(ok, html_path, succ, failed) ==
    [success_files |-> IF ok THEN succ + 1 ELSE succ,
     failed_files  |-> Append(failed, html_path)]

RecordResult(ok, html_path, succ, failed) ==
    [success_files |-> IF ok THEN succ + 1 ELSE succ,
     failed_files  |-> IF ok THEN failed ELSE Append(failed, html_path)]

NoConv == [ret |-> "none", blank |-> FALSE, saved |-> FALSE, exists |-> FALSE, size |-> 0]

----------------------------------------------------------------------------
(* _insert_image *)

\* most img elements handled in one document
MaxImgs == 2

I_pic == <<"p", ".", "p", "n", "g">>
I_PIC == <<"P", ".", "p", "n", "g">>
D_img == <<"i", "m", "g">>

\* files_folder is None
NoFolder == << <<"N", "o", "n", "e">> >>

\* image files that may exist, as paths relative to the html file's directory
ImgUniverse ==
    { <<I_pic>>, <<D_img, I_pic>>, <<D_a_files, I_PIC>>, <<D_a_files, D_img, I_pic>> }

\* src attributes: absent or empty, a data: URI, a path ending in '/', and
\* relative paths with and without a directory part and a ?query
ImgSrcs ==
    {[scheme |-> "", dir |-> <<>>, name |-> <<>>, query |-> FALSE],
     [scheme |-> "data", dir |-> <<>>, name |-> I_pic, query |-> FALSE],
     [scheme |-> "", dir |-> <<D_img>>, name |-> <<>>, query |-> FALSE],
     [scheme |-> "", dir |-> <<>>, name |-> I_pic, query |-> FALSE],
     [scheme |-> "", dir |-> <<>>, name |-> I_PIC, query |-> TRUE],
     [scheme |-> "", dir |-> <<D_img>>, name |-> I_pic, query |-> FALSE]}

ImgElements ==
    {[src |-> s, alt |-> "none"] : s \in ImgSrcs}
    \cup {[src |-> s, alt |-> "logo"] : s \in {t \in ImgSrcs : t.name = I_pic /\ t.dir = <<>>}}

\* not src
SrcEmpty(src) == src.scheme = "" /\ src.dir = <<>> /\ src.name = <<>> /\ ~src.query

\* clean_src = src.split('?')[0].split('#')[0], as a relative path
CleanSrc(src) == IF src.name = <<>> THEN src.dir ELSE src.dir \o <<src.name>>

\* img_name = os.path.basename(clean_src)
ImgName(src) == src.name

\* os.walk(files_folder): the files beneath the folder, top-down
FolderFiles(files, folder) == {p \in files : Len(p) > Len(folder) /\ IsPrefix(folder, p)}

WalkOrders(files, folder) ==
    {o \in Perms(FolderFiles(files, folder)) :
        \A i, j \in 1..Len(o) : i < j => Len(o[i]) <= Len(o[j])}

RECURSIVE FirstExisting(_, _)
FirstExisting(paths, files) ==
    IF paths = <<>> THEN <<>>
    ELSE IF Head(paths) \in files THEN <<Head(paths)>>
    ELSE FirstExisting(Tail(paths), files)

\* the search for the image file: <<path>> when found, <<>> when not
FindImage_ExactNameOnly(src, files, folder, walk) ==
    LET inFolder ==
            IF folder # NoFolder
            THEN FirstExisting(<<folder \o <<ImgName(src)>>, folder \o CleanSrc(src)>>, files)
            ELSE <<>>
    IN  IF inFolder # <<>> THEN inFolder
        ELSE IF CleanSrc(src) \in files THEN <<CleanSrc(src)>> ELSE <<>>

FindImage(src, files, folder, walk) ==
    LET Matches(p) == p[Len(p)] = ImgName(src) \/ Lower(p[Len(p)]) = Lower(ImgName(src))
        inFolder ==
            IF folder # NoFolder
            THEN FirstExisting(<<folder \o <<ImgName(src)>>, folder \o CleanSrc(src)>>
                                  \o SelectSeq(walk, Matches), files)
            ELSE <<>>
    IN  IF inFolder # <<>> THEN inFolder
        ELSE IF CleanSrc(src) \in files THEN <<CleanSrc(src)>> ELSE <<>>

\* alt_text = img_element.get('alt', img_name)
AltText(img) == IF img.alt = "none" THEN <<"name", ImgName(img.src)>> ELSE <<"alt", img.alt>>

\* a run added to paragraph number para of the document, or a new paragraph
\* holding it when para = 0
AddRun(doc, para, run, centered) ==
    IF para # 0
    THEN [doc EXCEPT ![para] = [@ EXCEPT !.runs = Append(@, run)]]
    ELSE Append(doc, [centered |-> centered, runs |-> <<run>>])

\* the picture branch when run.add_picture raises: the empty run (and, with
\* no paragraph given, the centred paragraph holding it) is already in the
\* document when the handler adds the bracketed text
PictureFailed(img, doc, para) ==
    LET started == AddRun(doc, para, [kind |-> "empty", of |-> <<>>], TRUE)
        text    == [kind |-> "failed", of |-> AltText(img)]
    IN  AddRun(started, para, text, FALSE)

\* _insert_image(img_element, doc, html_path, files_folder, paragraph):
\* the document afterwards and whether an exception left the method
InsertImage_NoInnerTry(img, doc, files, folder, walk, para, picture) ==
    LET found == FindImage(img.src, files, folder, walk)
    IN  IF SrcEmpty(img.src) \/ img.src.scheme = "data" \/ ImgName(img.src) = <<>>
        THEN [doc |-> doc, raised |-> FALSE]
        ELSE IF found # <<>>
        THEN IF picture = "ok"
             THEN [doc |-> AddRun(doc, para, [kind |-> "picture", of |-> found[1]], TRUE),
                   raised |-> FALSE]
             ELSE [doc |-> AddRun(doc, para, [kind |-> "empty", of |-> <<>>], TRUE),
                   raised |-> FALSE]
        ELSE [doc |-> AddRun(doc, para, [kind |-> "not_found", of |-> AltText(img)], FALSE),
              raised |-> FALSE]

InsertImage(img, doc, files, folder, walk, para, picture) ==
    LET found == FindImage(img.src, files, folder, walk)
    IN  IF SrcEmpty(img.src) \/ img.src.scheme = "data" \/ ImgName(img.src) = <<>>
        THEN [doc |-> doc, raised |-> FALSE]
        ELSE IF found # <<>>
        THEN IF picture = "ok"
             THEN [doc |-> AddRun(doc, para, [kind |-> "picture", of |-> found[1]], TRUE),
                   raised |-> FALSE]
             ELSE [doc |-> PictureFailed(img, doc, para), raised |-> FALSE]
        ELSE [doc |-> AddRun(doc, para, [kind |-> "not_found", of |-> AltText(img)], FALSE),
              raised |-> FALSE]

ImageIdle ==
    /\ imgFiles = {}
    /\ imgFolder = NoFolder
    /\ imgDoc = <<>>
    /\ imgLog = <<>>

----------------------------------------------------------------------------
(* The table branch of the element loop *)

\* most tr elements directly in a table, most td/th directly in a tr
MaxRows == 2
MaxCols == 2

SeqsUpTo(S, n) == UNION {[1..k -> S] : k \in 0..n}

T_pad == <<" ", "y", "\n">>

\* a td/th element: its own text and the rows of a table nested in it
LeafCells == {[text |-> t, inner |-> <<>>] : t \in {T_pad, <<>>}}

NestedCell ==
    [text |-> <<"o">>,
     inner |-> << <<[text |-> <<"i">>, inner |-> <<>>], [text |-> <<"j">>, inner |-> <<>>]>> >>]

TableCells == LeafCells \cup {NestedCell}

\* a table element, as the sequence of its own tr elements
Tables == SeqsUpTo(SeqsUpTo(TableCells, MaxCols), MaxRows)

RECURSIVE TrsBeneath(_), TrsInCells(_), CellsBeneath(_), CellsInRows(_)
RECURSIVE TextOfCells(_), TextOfRows(_)

\* element.find_all('tr'): every tr beneath the table, in document order
TrsBeneath(rows) ==
    IF rows = <<>> THEN <<>>
    ELSE <<Head(rows)>> \o TrsInCells(Head(rows)) \o TrsBeneath(Tail(rows))

TrsInCells(cells) ==
    IF cells = <<>> THEN <<>>
    ELSE TrsBeneath(Head(cells).inner) \o TrsInCells(Tail(cells))

\* row.find_all(['td', 'th']): every cell beneath the row, in document order
CellsBeneath(cells) ==
    IF cells = <<>> THEN <<>>
    ELSE <<Head(cells)>> \o CellsInRows(Head(cells).inner) \o CellsBeneath(Tail(cells))

CellsInRows(rows) ==
    IF rows = <<>> THEN <<>>
    ELSE CellsBeneath(Head(rows)) \o CellsInRows(Tail(rows))

\* the stripped strings beneath cells and rows, joined in document order
TextOfCells(cells) ==
    IF cells = <<>> THEN <<>>
    ELSE Strip(Head(cells).text) \o TextOfRows(Head(cells).inner) \o TextOfCells(Tail(cells))

TextOfRows(rows) ==
    IF rows = <<>> THEN <<>>
    ELSE TextOfCells(Head(rows)) \o TextOfRows(Tail(rows))

\* cell.get_text(strip=True)
GetText(cell) == TextOfCells(<<cell>>)

\* the table elements find_all reaches from one table: itself, then the
\* tables nested in its cells
RECURSIVE TablesBeneath(_)
TablesBeneath(cells) ==
    IF cells = <<>> THEN <<>>
    ELSE (IF Head(cells).inner = <<>> THEN <<>> ELSE <<Head(cells).inner>>)
         \o TablesBeneath(Tail(cells))

TableElements(table) == <<table>> \o TablesBeneath(CellsInRows(table))

SeqMax(q) == CHOOSE m \in Range0(q) : \A x \in Range0(q) : x <= m

\* max(len(row.find_all(['td', 'th'])) for row in rows)
MaxCells_FirstRow(rows) == Len(CellsBeneath(rows[1]))

MaxCells(rows) == SeqMax([i \in 1..Len(rows) |-> Len(CellsBeneath(rows[i]))])

NoGrid == [rows |-> 0, cols |-> 0, cell |-> <<>>]

\* elif element.name == 'table': the grid added to the document, NoGrid when
\* there is no tr or no cell
ConvertTable(table) ==
    LET rows == TrsBeneath(table)
    IN  IF rows = <<>> THEN NoGrid
        ELSE LET max_cols == MaxCells(rows)
             IN  IF max_cols = 0 THEN NoGrid
                 ELSE [rows |-> Len(rows),
                       cols |-> max_cols,
                       cell |-> [x \in (1..Len(rows)) \X (1..max_cols) |->
                                    LET cells == CellsBeneath(rows[x[1]])
                                    IN  IF x[2] <= Len(cells)
                                        THEN GetText(cells[x[2]])
                                        ELSE <<>>]]

TableIdle ==
    /\ tblQueue = <<>>
    /\ tblLog = <<>>

----------------------------------------------------------------------------
(* read_html_file and detect_encoding *)

\* result['confidence'] > 0.7, confidences in hundredths
ConfidenceThreshold == 70

\* what chardet.detect can answer for result['encoding']
DetectedNames == {"GB2312", "Big5", "Windows-1252", "EUC-TW"}

\* str.lower() on an encoding name
LowerName(e) ==
    CASE e = "GB2312" -> "gb2312" [] e = "Big5" -> "big5"
      [] e = "Windows-1252" -> "windows-1252" [] e = "EUC-TW" -> "euc-tw" [] OTHER -> e

\* the codec names open() accepts; any other name raises LookupError
KnownCodecs ==
    {"utf-8", "gbk", "gb18030", "gb2312", "big5", "utf-16", "latin-1", "windows-1252"}

\* a file as read_html_file meets it: whether it can be opened, whether its
\* bytes are valid UTF-8, whether the text starts with a byte order mark,
\* whether the detector runs, its confidence and answer, and the encodings
\* that decode its first 10000 bytes strictly (what gbk decodes, gb18030
\* decodes too)
ReadFiles ==
    [readable : BOOLEAN, utf8 : BOOLEAN, bom : BOOLEAN, detector : {"ok", "raise"},
     confidence : {50, 70, 71}, detected : DetectedNames,
     sample : {S \in SUBSET {"utf-8", "gbk", "gb18030", "big5"} :
                  "gbk" \in S => "gb18030" \in S}]

RECURSIVE FirstIn(_, _)
FirstIn(names, S) ==
    IF names = <<>> THEN <<>>
    ELSE IF Head(names) \in S THEN <<Head(names)>>
    ELSE FirstIn(Tail(names), S)

\* detect_encoding(file_path)
DetectEncoding_LadderOnLowConfidence(file) ==
    IF file.detector = "raise" \/ ~file.readable THEN "utf-8"
    ELSE IF file.confidence > ConfidenceThreshold
         THEN IF LowerName(file.detected) = "gb2312" THEN "gb18030"
              ELSE LowerName(file.detected)
    ELSE "unknown"

DetectEncoding(file) ==
    IF file.detector = "raise" \/ ~file.readable THEN "utf-8"
    ELSE IF file.confidence > ConfidenceThreshold
         THEN IF LowerName(file.detected) = "gb2312" THEN "gb18030"
              ELSE LowerName(file.detected)
    ELSE LET strict == FirstIn(<<"utf-8", "gbk", "gb18030", "big5">>, file.sample)
         IN  IF strict # <<>> THEN strict[1] ELSE "utf-8"

\* the text a decode of the file's bytes gives, by encoding and error mode;
\* step is the place in read_html_file that returned it
Decoded(file, step, enc, errors, strips) ==
    [step |-> step, enc |-> enc, errors |-> errors,
     bom |-> file.bom /\ ~strips /\ enc \in {"utf-8", "utf-16"}]

EmptyText == [step |-> 0, enc |-> "", errors |-> "", bom |-> FALSE]

\* read_html_file(file_path)
ReadHtmlFile(file) ==
    IF ~file.readable THEN EmptyText
    ELSE IF file.utf8 THEN Decoded(file, 1, "utf-8", "strict", TRUE)
    ELSE LET encoding == DetectEncoding(file)
             ladder   == FirstIn(<<"gbk", "gb18030", "big5", "utf-16", "latin-1">>, KnownCodecs)
         IN  IF encoding \in KnownCodecs
             THEN Decoded(file, 2, encoding, "ignore", TRUE)
             ELSE IF ladder # <<>>
             THEN Decoded(file, 3, ladder[1], "ignore", FALSE)
             ELSE Decoded(file, 4, "utf-8", "ignore", FALSE)

ReadIdle ==
    /\ rdFile = <<>>
    /\ rdOut = <<>>

----------------------------------------------------------------------------
(* find_associated_files_folder *)

\* most entries in the html file's directory besides the html file itself
MaxEntries == 2

\* sub in s
Contains(s, sub) ==
    \E i \in 0..(Len(s) - Len(sub)) : SubSeq(s, i + 1, i + Len(sub)) = sub

S_files  == <<"f", "i", "l", "e", "s">>
S_images == <<"i", "m", "a", "g", "e", "s">>
S_image  == <<"i", "m", "a", "g", "e">>
S_img    == <<"i", "m", "g">>
S_file   == <<"f", "i", "l", "e">>

N_b_html == <<"b", ".", "h", "t", "m", "l">>
N_B_htm  == <<"B", ".", "h", "t", "m">>

\* names an entry of the directory may have
EntryNames ==
    { <<"b", "_">> \o S_files, <<"b", ".">> \o S_files, <<"b">>, <<"B">>,
      S_files, S_images, S_image, S_img,
      <<"B", "_", "F", "i", "l", "e", "s">>, <<"b", "-">> \o S_image,
      <<"x">> \o S_file, <<"b", "2">> }

\* os.listdir(html_dir): entries with distinct names, in an arbitrary order
Listings ==
    {l \in SeqsUpTo([name : EntryNames, isdir : BOOLEAN], MaxEntries) :
        \A i, j \in 1..Len(l) : i # j => l[i].name # l[j].name}

\* os.path.exists(folder_path) and os.path.isdir(folder_path)
IsDirIn(listing, name) ==
    \E i \in 1..Len(listing) : listing[i].name = name /\ listing[i].isdir

PossibleNames(html_name) ==
    <<html_name \o <<"_">> \o S_files, html_name \o <<".">> \o S_files, html_name,
      S_files, S_images, S_image, S_img>>

\* the condition of the scan for a folder with a similar name
SimilarName(html_name, item) ==
    /\ Contains(Lower(item), html_name)
    /\ Contains(Lower(item), S_file) \/ Contains(Lower(item), S_image)

\* for name in possible_names: the first name that is an existing directory
RECURSIVE FirstConventional(_, _)
FirstConventional(names, listing) ==
    IF names = <<>> THEN <<>>
    ELSE IF IsDirIn(listing, Head(names)) THEN <<Head(names)>>
    ELSE FirstConventional(Tail(names), listing)

\* for item in os.listdir(html_dir): the first directory with a similar name
RECURSIVE FirstSimilar(_, _)
FirstSimilar(listing, html_name) ==
    IF listing = <<>> THEN <<>>
    ELSE IF Head(listing).isdir /\ SimilarName(html_name, Head(listing).name)
         THEN <<Head(listing).name>>
    ELSE FirstSimilar(Tail(listing), html_name)

\* find_associated_files_folder(html_path): <<name>> of the folder returned
\* (joined to html_dir by the code), <<>> for None
FindAssociatedFilesFolder(file, listing) ==
    LET html_name    == SplitextBase(file)
        conventional == FirstConventional(PossibleNames(html_name), listing)
    IN  IF conventional # <<>> THEN conventional
        ELSE FirstSimilar(listing, html_name)

FolderIdle ==
    /\ fdHtml = <<>>
    /\ fdListing = <<>>
    /\ fdOut = <<>>

----------------------------------------------------------------------------
(* The p branch of the element loop *)

\* most direct children of a p element
MaxChildren == 2

P_x  == <<"x">>
P_ws == <<" ">>

\* the img of a child that is not an img element
ImgNone == [src |-> [scheme |-> "", dir |-> <<>>, name |-> <<>>, query |-> FALSE],
            alt |-> "none"]

ImgPic == [src |-> [scheme |-> "", dir |-> <<>>, name |-> I_pic, query |-> FALSE],
           alt |-> "none"]

\* the image files beside the html file while paragraphs are converted
ParaFiles == { <<I_pic>> }

\* element.children: text nodes ("#text") and elements holding one text node
ParaChildren ==
    {[name |-> "#text", text |-> t, img |-> ImgNone] : t \in {P_x, T_pad, P_ws}}
    \cup {[name |-> n, text |-> P_x, img |-> ImgNone] :
             n \in {"b", "strong", "i", "em", "u", "a", "span"}}
    \cup {[name |-> "b", text |-> T_pad, img |-> ImgNone]}
    \cup {[name |-> "img", text |-> <<>>, img |-> e] : e \in {ImgNone, ImgPic}}

\* a p element, as the sequence of its direct children
Paragraphs == SeqsUpTo(ParaChildren, MaxChildren)

\* element.get_text(strip=True): the stripped strings beneath the element
RECURSIVE ElementText(_)
ElementText(children) ==
    IF children = <<>> THEN <<>>
    ELSE Strip(Head(children).text) \o ElementText(Tail(children))

\* one iteration of "for child in element.children": st is the document, the
\* local variable text and whether an exception has left the loop
HandleChild(child, st, para, outcome) ==
    LET Run(kind) == AddRun(st.doc, para, [kind |-> kind, of |-> Strip(child.text)], FALSE)
    IN  CASE child.name = "img" ->
               LET r == InsertImage(child.img, st.doc, ParaFiles, NoFolder, <<>>, para, outcome)
               IN  [doc |-> r.doc, text |-> st.text, raised |-> r.raised]
          [] child.name \in {"b", "strong"} ->
               [doc |-> Run("bold"), text |-> st.text, raised |-> FALSE]
          [] child.name \in {"i", "em"} ->
               [doc |-> Run("italic"), text |-> st.text, raised |-> FALSE]
          [] child.name = "u" ->
               [doc |-> Run("underline"), text |-> st.text, raised |-> FALSE]
          [] child.name = "a" ->
               \* run.font.color.rgb = '0000FF' may be refused by the library
               IF outcome = "ok"
               THEN [doc |-> Run("link"), text |-> st.text, raised |-> FALSE]
               ELSE [doc |-> Run("plain"), text |-> st.text, raised |-> TRUE]
          [] child.name = "#text" ->
               \* text = str(child).strip() rebinds the paragraph's text
               [doc |-> IF Strip(child.text) # <<>> THEN Run("plain") ELSE st.doc,
                text |-> Strip(child.text), raised |-> FALSE]
          [] OTHER -> st

RECURSIVE ParaLoop(_, _, _, _, _)
ParaLoop(children, i, st, para, outcomes) ==
    IF i > Len(children) \/ st.raised THEN st
    ELSE ParaLoop(children, i + 1, HandleChild(children[i], st, para, outcomes[i]),
                  para, outcomes)

\* elif element.name == 'p': the document afterwards and whether an exception
\* left the element loop; the else of the for loop runs whenever the loop ends
ConvertParagraph(children, doc, outcomes) ==
    LET text == ElementText(children)
        doc1 == Append(doc, [centered |-> FALSE, runs |-> <<>>])
        para == Len(doc1)
        st   == ParaLoop(children, 1, [doc |-> doc1, text |-> text, raised |-> FALSE],
                         para, outcomes)
    IN  IF text = <<>> THEN [doc |-> doc, raised |-> FALSE]
        ELSE IF st.raised THEN [doc |-> st.doc, raised |-> TRUE]
        ELSE [doc |-> AddRun(st.doc, para, [kind |-> "plain", of |-> st.text], FALSE),
              raised |-> FALSE]

ParaIdle ==
    /\ paQueue = <<>>
    /\ paDoc = <<>>
    /\ paLog = <<>>

----------------------------------------------------------------------------
(* The run *)

Init ==
    /\ cwd \in Cwds
    /\ tree \in Trees
    /\ pc = "main"
    /\ total_files = 0
    /\ success_files = 0
    /\ failed_files = <<>>
    /\ output_dir = NoneDir
    /\ stack = <<>>
    /\ cur = <<>>
    /\ seen = {}
    /\ \E pre \in BOOLEAN :
         dirs = Prefixes(cwd) \cup {cwd \o d : d \in TreeDirs(tree)}
                \cup (IF pre THEN Prefixes(OutputRoot(cwd)) ELSE {})
    /\ docs = <<>>
    /\ calls = {}
    /\ conv = [f \in tree |-> NoConv]
    /\ failure = "none"
    /\ excAt = "none"
    /\ written = <<>>
    /\ escaping = FALSE
    /\ exits = 0
    /\ ImageIdle
    /\ TableIdle
    /\ ReadIdle
    /\ FolderIdle
    /\ ParaIdle

walkVars == <<total_files, success_files, failed_files, output_dir, stack, cur,
              seen, dirs, docs, calls, conv>>

\* main(): converter = HtmlToWordConverter(); setup_logging may raise
Construct ==
    /\ pc = "main"
    /\ \/ /\ pc' = "deps"
          /\ UNCHANGED <<failure, escaping>>
       \/ /\ pc' = "main_except"
          /\ failure' = "startup"
          /\ escaping' = TRUE
    /\ UNCHANGED <<cwd, tree, walkVars, excAt, written, exits>>

\* run(): setup_environment, then check_and_install_dependencies; an interrupt
\* here is outside run()'s try and is not an Exception for main()
CheckDependencies ==
    /\ pc = "deps"
    /\ \/ /\ pc' = "process_directory"
          /\ UNCHANGED failure
       \/ /\ pc' = "deps_failed"
          /\ failure' = "deps"
       \/ /\ pc' = "done"
          /\ failure' = "killed"
    /\ UNCHANGED <<cwd, tree, walkVars, excAt, written, escaping, exits>>

\* process_directory up to the start of os.walk
ProcessDirectoryBegin ==
    /\ pc = "process_directory"
    /\ output_dir' = OutputRoot(cwd)
    /\ \/ /\ dirs' = dirs \cup Prefixes(OutputRoot(cwd))
          /\ stack' = << <<>> >>
          /\ pc' = "walk"
          /\ UNCHANGED <<failure, excAt>>
       \/ /\ OutputRoot(cwd) \notin dirs
          /\ pc' = "handler_exc"
          /\ failure' = "exc"
          /\ excAt' = "mkroot"
          /\ UNCHANGED <<dirs, stack>>
    /\ UNCHANGED <<cwd, tree, total_files, success_files, failed_files, cur, seen,
                   docs, calls, conv, written, escaping, exits>>

\* os.walk yields the next directory
EnterDir ==
    /\ pc = "walk"
    /\ cur = <<>>
    /\ stack # <<>>
    /\ cur' = <<Head(stack)>>
    /\ stack' = Tail(stack)
    /\ UNCHANGED <<cwd, tree, pc, total_files, success_files, failed_files,
                   output_dir, seen, dirs, docs, calls, conv, failure, excAt,
                   written, escaping, exits>>

\* for file in files: a name that is not .html/.htm
SkipFile(f) ==
    /\ pc = "walk"
    /\ cur # <<>>
    /\ f \in FilesIn(tree, cur[1]) \ seen
    /\ ~IsHtml(f.name)
    /\ seen' = seen \cup {f}
    /\ UNCHANGED <<cwd, tree, pc, total_files, success_files, failed_files,
                   output_dir, stack, cur, dirs, docs, calls, conv, failure,
                   excAt, written, escaping, exits>>

\* for file in files: a discovered file, from total_files += 1 to the
\* success/failure record
ProcessFile(f) ==
    /\ pc = "walk"
    /\ cur # <<>>
    /\ f \in FilesIn(tree, cur[1]) \ seen
    /\ IsHtml(f.name)
    /\ seen' = seen \cup {f}
    /\ total_files' = total_files + 1
    /\ LET html_path     == HtmlPath(cwd, f)
           output_subdir == OutputSubdir(output_dir, f)
           docx_path     == DocxPath(output_dir, f)
       IN
       \/ \* os.makedirs(output_subdir) raises: nothing catches it here
          /\ output_subdir \notin dirs
          /\ pc' = "handler_exc"
          /\ failure' = "exc"
          /\ excAt' = "file"
          /\ UNCHANGED <<success_files, failed_files, dirs, docs, calls, conv>>
       \/ \* KeyboardInterrupt while the file is being handled
          /\ pc' = "handler_ki"
          /\ failure' = "ki"
          /\ dirs' = dirs \cup Prefixes(output_subdir)
          /\ UNCHANGED <<success_files, failed_files, docs, calls, conv, excAt>>
       \/ \E content \in Contents, env \in ConvEnvs :
             LET r   == ConvertHtmlToWord(content, env)
                 rec == RecordResult(r.ret, html_path, success_files, failed_files)
             IN
             \* blank content returns before the environment is consulted
             /\ IsBlank(content) => env = CHOOSE e \in ConvEnvs : e.mapper = "raise"
             /\ dirs' = dirs \cup Prefixes(output_subdir)
             /\ calls' = calls \cup {[html_path |-> html_path, docx_path |-> docx_path,
                                       dir_exists |-> output_subdir \in dirs']}
             /\ docs' = IF r.saved /\ env.exists
                        THEN (docx_path :> [src |-> html_path, size |-> env.size]) @@ docs
                        ELSE docs
             /\ conv' = [conv EXCEPT ![f] =
                           [ret |-> IF r.ret THEN "success" ELSE "failed",
                            blank |-> IsBlank(content), saved |-> r.saved,
                            exists |-> r.saved /\ env.exists,
                            size |-> IF r.saved THEN env.size ELSE 0]]
             /\ success_files' = rec.success_files
             /\ failed_files' = rec.failed_files
             /\ UNCHANGED <<pc, failure, excAt>>
    /\ UNCHANGED <<cwd, tree, output_dir, stack, cur, written, escaping, exits>>

\* the inner loop is over: os.walk descends into the directories left in dirs
LeaveDir ==
    /\ pc = "walk"
    /\ cur # <<>>
    /\ FilesIn(tree, cur[1]) \subseteq seen
    /\ \E order \in Perms({e \in SubdirsOf(tree, cur[1]) : KeepDir(e[Len(e)])}) :
         stack' = order \o stack
    /\ cur' = <<>>
    /\ UNCHANGED <<cwd, tree, pc, total_files, success_files, failed_files,
                   output_dir, seen, dirs, docs, calls, conv, failure, excAt,
                   written, escaping, exits>>

\* return self.total_files, self.success_files, self.output_dir
ProcessDirectoryReturn ==
    /\ pc = "walk"
    /\ cur = <<>>
    /\ stack = <<>>
    /\ pc' = "report"
    /\ UNCHANGED <<cwd, tree, walkVars, failure, excAt, written, escaping, exits>>

\* generate_summary_report: opens a file under logs/, which may raise
GenerateSummaryReport ==
    /\ pc = "report"
    /\ \/ /\ written' = Append(written, "conversion_summary")
          /\ pc' = "display"
          /\ UNCHANGED <<failure, excAt>>
       \/ /\ pc' = "handler_exc"
          /\ failure' = "exc"
          /\ excAt' = "report"
          /\ UNCHANGED written
    /\ UNCHANGED <<cwd, tree, walkVars, escaping, exits>>

\* display_summary and the total == 0 hint; the try block ends
DisplaySummary ==
    /\ pc = "display"
    /\ pc' = "finally"
    /\ UNCHANGED <<cwd, tree, walkVars, failure, excAt, written, escaping, exits>>

\* KeyboardInterrupt between two steps of the try block
Interrupt ==
    /\ pc \in {"process_directory", "walk", "report", "display"}
    /\ pc' = "handler_ki"
    /\ failure' = "ki"
    /\ UNCHANGED <<cwd, tree, walkVars, excAt, written, escaping, exits>>

\* a handler that ends the run itself, bypassing the finally clause
HandleInterrupt_NoFinally ==
    /\ pc = "handler_ki"
    /\ written' = Append(written, "operation_interrupted.txt")
    /\ pc' = "done"
    /\ UNCHANGED <<cwd, tree, walkVars, failure, excAt, escaping, exits>>

\* except KeyboardInterrupt: writes operation_interrupted.txt
HandleInterrupt ==
    /\ pc = "handler_ki"
    /\ \/ /\ written' = Append(written, "operation_interrupted.txt")
          /\ UNCHANGED escaping
       \/ /\ escaping' = TRUE
          /\ UNCHANGED written
    /\ pc' = "finally"
    /\ UNCHANGED <<cwd, tree, walkVars, failure, excAt, exits>>

\* a handler that only logs and sleeps
HandleException_NoReport ==
    /\ pc = "handler_exc"
    /\ pc' = "finally"
    /\ UNCHANGED <<cwd, tree, walkVars, failure, excAt, written, escaping, exits>>

\* except Exception: writes error_report.txt
HandleException ==
    /\ pc = "handler_exc"
    /\ \/ /\ written' = Append(written, "error_report.txt")
          /\ UNCHANGED escaping
       \/ /\ escaping' = TRUE
          /\ UNCHANGED written
    /\ pc' = "finally"
    /\ UNCHANGED <<cwd, tree, walkVars, failure, excAt, exits>>

\* safe_exit: writes the completion marker; its own errors are only logged
SafeExit ==
    /\ pc \in {"finally", "deps_failed"}
    /\ \/ written' = Append(written, "conversion_completed.txt")
       \/ UNCHANGED written
    /\ exits' = exits + 1
    /\ pc' = IF escaping THEN "main_except" ELSE "done"
    /\ UNCHANGED <<cwd, tree, walkVars, failure, excAt, escaping>>

\* main(): except Exception writes startup_error.txt; if that write raises
\* too, the exception leaves main()
MainExcept ==
    /\ pc = "main_except"
    /\ \/ /\ written' = Append(written, "startup_error.txt")
          /\ escaping' = FALSE
       \/ /\ escaping' = TRUE
          /\ UNCHANGED written
    /\ pc' = "done"
    /\ UNCHANGED <<cwd, tree, walkVars, failure, excAt, exits>>

RunNext ==
    \/ Construct
    \/ CheckDependencies
    \/ ProcessDirectoryBegin
    \/ EnterDir
    \/ \E f \in tree : SkipFile(f)
    \/ \E f \in tree : ProcessFile(f)
    \/ LeaveDir
    \/ ProcessDirectoryReturn
    \/ GenerateSummaryReport
    \/ DisplaySummary
    \/ Interrupt
    \/ HandleInterrupt
    \/ HandleException
    \/ SafeExit
    \/ MainExcept

Next == RunNext /\ UNCHANGED <<imgVars, tblVars, rdVars, fdVars, paVars>>

Spec == Init /\ [][Next]_vars

----------------------------------------------------------------------------
(* SpecImage: the mapper handing img elements to _insert_image *)

RunIdle ==
    /\ cwd = <<>>
    /\ tree = {}
    /\ pc = "idle"
    /\ total_files = 0
    /\ success_files = 0
    /\ failed_files = <<>>
    /\ output_dir = NoneDir
    /\ stack = <<>>
    /\ cur = <<>>
    /\ seen = {}
    /\ dirs = {}
    /\ docs = <<>>
    /\ calls = {}
    /\ conv = <<>>
    /\ failure = "none"
    /\ excAt = "none"
    /\ written = <<>>
    /\ escaping = FALSE
    /\ exits = 0

ImageInit ==
    /\ RunIdle
    /\ TableIdle
    /\ ReadIdle
    /\ FolderIdle
    /\ ParaIdle
    /\ imgFiles \in SUBSET ImgUniverse
    /\ imgFolder \in {NoFolder, <<D_a_files>>}
    /\ imgDoc = <<>>
    /\ imgLog = <<>>

LogEntry(img, para, picture, before, r) ==
    [img |-> img, para |-> para, picture |-> picture, before |-> before,
     after |-> r.doc, raised |-> r.raised]

\* elif element.name == 'img': self._insert_image(element, doc, html_path, files_folder)
ImageStandalone ==
    /\ Len(imgLog) < MaxImgs
    /\ \E img \in ImgElements, walk \in WalkOrders(imgFiles, imgFolder),
          picture \in {"ok", "raise"} :
          LET r == InsertImage(img, imgDoc, imgFiles, imgFolder, walk, 0, picture)
          IN  /\ imgDoc' = r.doc
              /\ imgLog' = Append(imgLog, LogEntry(img, 0, picture, imgDoc, r))
    /\ UNCHANGED <<runVars, tblVars, rdVars, fdVars, paVars, imgFiles, imgFolder>>

\* para = doc.add_paragraph(), then for an img child of the p element:
\* self._insert_image(child, doc, html_path, files_folder, para)
ImageInParagraph ==
    /\ Len(imgLog) < MaxImgs
    /\ \E img \in ImgElements, walk \in WalkOrders(imgFiles, imgFolder),
          picture \in {"ok", "raise"} :
          LET doc1 == Append(imgDoc, [centered |-> FALSE, runs |-> <<>>])
              r    == InsertImage(img, doc1, imgFiles, imgFolder, walk, Len(doc1), picture)
          IN  /\ imgDoc' = r.doc
              /\ imgLog' = Append(imgLog, LogEntry(img, Len(doc1), picture, doc1, r))
    /\ UNCHANGED <<runVars, tblVars, rdVars, fdVars, paVars, imgFiles, imgFolder>>

ImageNext ==
    \/ ImageStandalone
    \/ ImageInParagraph

SpecImage == ImageInit /\ [][ImageNext]_vars

----------------------------------------------------------------------------
(* SpecTable: the mapper handing table elements to the table branch *)

TableInit ==
    /\ RunIdle
    /\ ImageIdle
    /\ ReadIdle
    /\ FolderIdle
    /\ ParaIdle
    /\ \E t \in Tables : tblQueue = TableElements(t)
    /\ tblLog = <<>>

\* one iteration of the element loop on a table element
TableElement ==
    /\ tblQueue # <<>>
    /\ tblLog' = Append(tblLog, [table |-> Head(tblQueue), grid |-> ConvertTable(Head(tblQueue))])
    /\ tblQueue' = Tail(tblQueue)
    /\ UNCHANGED <<runVars, imgVars, rdVars, fdVars, paVars>>

TableNext == TableElement

SpecTable == TableInit /\ [][TableNext]_vars

----------------------------------------------------------------------------
(* SpecRead: convert_html_to_word reading one html file *)

ReadInit ==
    /\ RunIdle
    /\ ImageIdle
    /\ TableIdle
    /\ FolderIdle
    /\ ParaIdle
    /\ \E f \in ReadFiles : rdFile = <<f>>
    /\ rdOut = <<>>

\* html_content = self.read_html_file(html_path)
ReadFile ==
    /\ rdFile # <<>>
    /\ rdOut = <<>>
    /\ rdOut' = <<ReadHtmlFile(rdFile[1])>>
    /\ UNCHANGED <<runVars, imgVars, tblVars, fdVars, paVars, rdFile>>

ReadNext == ReadFile

SpecRead == ReadInit /\ [][ReadNext]_vars

----------------------------------------------------------------------------
(* SpecFolder: process_directory looking for the folder of one html file *)

FolderInit ==
    /\ RunIdle
    /\ ImageIdle
    /\ TableIdle
    /\ ReadIdle
    /\ ParaIdle
    /\ fdHtml \in {N_b_html, N_B_htm}
    /\ fdListing \in Listings
    /\ fdOut = <<>>

\* files_folder = self.find_associated_files_folder(html_path)
FindFolder ==
    /\ fdOut = <<>>
    /\ fdOut' = <<FindAssociatedFilesFolder(fdHtml, fdListing)>>
    /\ UNCHANGED <<runVars, imgVars, tblVars, rdVars, paVars, fdHtml, fdListing>>

FolderNext == FindFolder

SpecFolder == FolderInit /\ [][FolderNext]_vars

----------------------------------------------------------------------------
(* SpecPara: the mapper handing one p element to the paragraph branch *)

ParaInit ==
    /\ RunIdle
    /\ ImageIdle
    /\ TableIdle
    /\ ReadIdle
    /\ FolderIdle
    /\ \E p \in Paragraphs : paQueue = <<p>>
    /\ paDoc = <<>>
    /\ paLog = <<>>

\* one iteration of the element loop on a p element
ParagraphElement ==
    /\ paQueue # <<>>
    /\ \E outcomes \in [1..Len(Head(paQueue)) -> {"ok", "raise"}] :
          LET r == ConvertParagraph(Head(paQueue), paDoc, outcomes)
          IN  /\ paDoc' = r.doc
              /\ paLog' = Append(paLog, [p |-> Head(paQueue), outcomes |-> outcomes,
                                         before |-> paDoc, after |-> r.doc,
                                         raised |-> r.raised])
    /\ paQueue' = Tail(paQueue)
    /\ UNCHANGED <<runVars, imgVars, tblVars, rdVars, fdVars>>

ParaNext == ParagraphElement

SpecPara == ParaInit /\ [][ParaNext]_vars

----------------------------------------------------------------------------
(* What the claims speak of, stated without the operators of the model *)

Range(q) == {q[i] : i \in 1..Len(q)}

Count(q, x) == Cardinality({i \in 1..Len(q) : q[i] = x})

\* the names of the universe that end in .html or .htm, whatever their case
HtmlNames == {N_a_html, N_a_htm, N_B_HTML, N_c_htm, N_d_html}

\* the directory names the walk does not enter
FilteredDirNames == {D_a_files, D_word, D_pycache, D_git, D_logs}

BeneathFiltered(f) == \E i \in 1..Len(f.dir) : f.dir[i] \in FilteredDirNames

\* base of base.ext
BaseOf(name) ==
    CASE name \in {N_a_html, N_a_htm} -> <<"a">>
      [] name = N_B_HTML -> <<"B">>
      [] name = N_c_htm -> <<"c">>
      [] name = N_d_html -> <<"d">>
      [] OTHER -> <<"n">>

PathOf(f) == cwd \o f.dir \o <<f.name>>

Reports == {"error_report.txt", "operation_interrupted.txt", "startup_error.txt"}

Returned == pc \in {"report", "display"}

----------------------------------------------------------------------------
(* C1 *)

\* C1 as stated: when process_directory has returned, total_files is the
\* number of files of the tree whose name ends in .html/.htm, wherever in
\* the tree they are.
C1_TotalCountsEveryHtml ==
    Returned => total_files = Cardinality({f \in tree : f.name \in HtmlNames})

\* C1 (amended): when process_directory has returned, total_files is the
\* number of files whose name ends in .html/.htm (case-insensitively) and that
\* do not lie beneath a directory named *_files, word, __pycache__, .git or
\* logs; html files beneath such a directory are not counted.
C1_TotalCountsReachableHtml ==
    Returned =>
        total_files =
            Cardinality({f \in tree : f.name \in HtmlNames /\ ~BeneathFiltered(f)})

C1_Witness ==
    /\ Returned
    /\ total_files = 2
    /\ \E f \in tree : f.dir = <<D_sub>> /\ conv[f].ret # "none"
    /\ \E g \in tree : BeneathFiltered(g) /\ g.name \in HtmlNames

----------------------------------------------------------------------------
(* C2 *)

\* C2: an exception raised while one discovered file is handled is recorded
\* as that file's failure and the walk goes on: a run that nothing else
\* stopped (no interrupt, no setup or report failure) has converted or failed
\* every discovered file.
C2_PerFileErrorsContained ==
    (pc = "done" /\ (failure = "none" \/ (failure = "exc" /\ excAt = "file")))
        => \A f \in tree :
              (f.name \in HtmlNames /\ ~BeneathFiltered(f)) => conv[f].ret # "none"

----------------------------------------------------------------------------
(* C3 *)

\* C3: the path of every file whose conversion returned failure is in
\* failed_files exactly once, and the path of no file whose conversion
\* succeeded is in failed_files.
C3_FailedListedOnce ==
    \A f \in tree :
        /\ conv[f].ret = "failed" => Count(failed_files, PathOf(f)) = 1
        /\ conv[f].ret = "success" => Count(failed_files, PathOf(f)) = 0

C3_Witness ==
    /\ Returned
    /\ \E f, g \in tree :
          /\ conv[f].ret = "failed"
          /\ conv[g].ret = "success"
          /\ failed_files = <<PathOf(f)>>

----------------------------------------------------------------------------
(* C4 *)

\* C4: a file is counted as a success only if its destination existed with a
\* size above 1024 bytes when convert_html_to_word returned; blank content, a
\* missing output or an output of at most 1024 bytes is never a success, and
\* success_files counts exactly the successes.
C4_SuccessMeansVerifiedOutput ==
    /\ \A f \in tree :
          conv[f].ret = "success" =>
              /\ ~conv[f].blank
              /\ conv[f].exists
              /\ conv[f].size > 1024
              /\ DocxPath(output_dir, f) \in DOMAIN docs
    /\ success_files = Cardinality({f \in tree : conv[f].ret = "success"})

C4_Witness ==
    /\ Returned
    /\ \E f, g, h \in tree :
          /\ conv[f].ret = "success"
          /\ conv[g].ret = "failed" /\ conv[g].exists /\ conv[g].size = 1024
          /\ conv[h].ret = "failed" /\ conv[h].blank

----------------------------------------------------------------------------
(* C7 *)

\* C7: every invocation of the mapper for a file at relative directory R
\* gets the destination <parent of cwd>/word/R/base.docx, the directory
\* <parent>/word/R exists by then, and the output root is a sibling of the
\* working directory, never inside it.
C7_DestinationUnderSiblingRoot ==
    \A c \in calls :
        /\ \E f \in tree :
              /\ c.html_path = PathOf(f)
              /\ c.docx_path =
                    Dirname(cwd) \o <<D_word>> \o f.dir \o <<BaseOf(f.name) \o ExtDocx>>
        /\ c.dir_exists
        /\ ~IsPrefix(cwd, Dirname(c.docx_path))

----------------------------------------------------------------------------
(* C8 *)

\* C8 as stated: every run that failed at top level (setup failure,
\* unexpected exception, interrupt) has written an error, interruption or
\* startup-error report when it terminates.
C8_EveryFailureReported ==
    (pc = "done" /\ failure # "none") => Range(written) \cap Reports # {}

C8_ReportsWritten ==
    /\ (failure = "exc" /\ pc \in {"finally", "done"} /\ ~escaping)
          => Range(written) \cap {"error_report.txt", "startup_error.txt"} # {}
    /\ (failure = "ki" /\ pc \in {"finally", "done"} /\ ~escaping)
          => Range(written) \cap {"operation_interrupted.txt", "startup_error.txt"} # {}
    /\ (failure = "startup" /\ pc = "done" /\ ~escaping)
          => "startup_error.txt" \in Range(written)
    /\ failure \in {"deps", "killed"}
          => /\ Range(written) \cap Reports = {}
             /\ total_files = 0 /\ calls = {}

\* C8 (amended): an exception escaping process_directory or report generation
\* writes error_report.txt and an interrupt inside run()'s try block writes
\* operation_interrupted.txt (startup_error.txt, written by main(), stands in
\* when that write itself raises), a failure constructing the converter writes
\* startup_error.txt, each unless the last write raises too; a setup failure
\* writes no failure report, only the completion marker, and an interrupt
\* during the dependency check writes nothing; after any of these no further
\* file is processed.
C8_FailureReportedOrMarkerOnly ==
    /\ []C8_ReportsWritten
    /\ [][failure # "none" =>
            UNCHANGED <<total_files, success_files, failed_files, docs, calls, conv>>]_vars

C8_Witness ==
    /\ pc = "done"
    /\ failure = "exc"
    /\ excAt = "file"
    /\ written = <<"error_report.txt", "conversion_completed.txt">>
    /\ \E f \in tree : f.name \in HtmlNames /\ ~BeneathFiltered(f) /\ f \notin seen

----------------------------------------------------------------------------
(* C10 *)

\* C10: no job overwrites the destination of another job: when the walk has
\* returned, the destination of every job that saved its document holds that
\* job's document, whatever the order in which the files were processed.
C10_JobsKeepTheirDestination ==
    Returned =>
        \A f \in tree :
            (conv[f].saved /\ conv[f].exists) =>
                docs[DocxPath(output_dir, f)].src = PathOf(f)

----------------------------------------------------------------------------
(* C5 *)

AllRuns(doc) == {<<i, j>> \in (1..Len(doc)) \X (1..4) : j <= Len(doc[i].runs)}

Pictures(doc) == Cardinality({x \in AllRuns(doc) : doc[x[1]].runs[x[2]].kind = "picture"})

Brackets(doc) ==
    Cardinality({x \in AllRuns(doc) : doc[x[1]].runs[x[2]].kind \in {"not_found", "failed"}})

\* the src is a reference to a file: not empty, not a data: URI, with a name
NamesAFile(src) == src.scheme = "" /\ src.name # <<>>

\* some file of the asset folder has the referenced name (whatever its case)
\* or sits at the referenced path, or the path exists relative to the html
\* file's directory
Resolves(src) ==
    \/ /\ imgFolder # NoFolder
       /\ \E p \in imgFiles :
             /\ IsPrefix(imgFolder, p) /\ Len(p) > Len(imgFolder)
             /\ \/ {p[Len(p)], src.name} \subseteq {I_pic, I_PIC}
                \/ p = imgFolder \o src.dir \o <<src.name>>
    \/ src.dir \o <<src.name>> \in imgFiles

\* C5 as stated: an img whose reference resolves to an existing file is
\* embedded, one whose reference does not resolve gets a bracketed
\* placeholder, and neither outcome raises out of _insert_image.
C5_ResolvedImageEmbedded ==
    \A k \in 1..Len(imgLog) :
        LET e == imgLog[k]
        IN  NamesAFile(e.img.src) =>
              /\ ~e.raised
              /\ Resolves(e.img.src) => Pictures(e.after) = Pictures(e.before) + 1
              /\ ~Resolves(e.img.src) => Brackets(e.after) = Brackets(e.before) + 1

\* C5 (amended): an img whose src names a file (not empty, not a data: URI) is
\* embedded when the reference resolves to an existing file and the picture
\* insertion succeeds; when the reference does not resolve, or the insertion
\* of the resolved file raises, a bracketed placeholder text is written
\* instead; in no case does an exception leave _insert_image.
C5_EmbeddedOrPlaceholder ==
    \A k \in 1..Len(imgLog) :
        LET e == imgLog[k]
            embedded    == /\ Pictures(e.after) = Pictures(e.before) + 1
                           /\ Brackets(e.after) = Brackets(e.before)
            placeholder == /\ Brackets(e.after) = Brackets(e.before) + 1
                           /\ Pictures(e.after) = Pictures(e.before)
        IN  /\ ~e.raised
            /\ NamesAFile(e.img.src) =>
                  /\ (Resolves(e.img.src) /\ e.picture = "ok") => embedded
                  /\ (~Resolves(e.img.src) \/ e.picture = "raise") => placeholder

C5_Witness ==
    \E k, l \in 1..Len(imgLog) :
        /\ NamesAFile(imgLog[k].img.src) /\ Resolves(imgLog[k].img.src)
        /\ imgLog[k].picture = "ok" /\ imgLog[k].para # 0
        /\ Pictures(imgLog[k].after) = 1
        /\ NamesAFile(imgLog[l].img.src) /\ ~Resolves(imgLog[l].img.src)
        /\ Brackets(imgLog[l].after) = Brackets(imgLog[l].before) + 1

----------------------------------------------------------------------------
(* C6 *)

\* C6: a table with at least one row containing a cell yields a grid with one
\* row per tr found beneath the table and as many columns as the largest
\* number of td/th found beneath any of those rows; cell (i, j) holds the
\* stripped text of the j-th cell of the i-th row, and the cells past a
\* shorter row's last cell are blank.
C6_GridSizedToWidestRow ==
    \A k \in 1..Len(tblLog) :
        LET rows == TrsBeneath(tblLog[k].table)
            g    == tblLog[k].grid
        IN  (\E i \in 1..Len(rows) : CellsBeneath(rows[i]) # <<>>) =>
              /\ g.rows = Len(rows)
              /\ \A i \in 1..Len(rows) : Len(CellsBeneath(rows[i])) <= g.cols
              /\ \E i \in 1..Len(rows) : Len(CellsBeneath(rows[i])) = g.cols
              /\ DOMAIN g.cell = (1..g.rows) \X (1..g.cols)
              /\ \A i \in 1..g.rows, j \in 1..g.cols :
                    g.cell[<<i, j>>] =
                        IF j <= Len(CellsBeneath(rows[i]))
                        THEN GetText(CellsBeneath(rows[i])[j])
                        ELSE <<>>

C6_Witness ==
    \E k \in 1..Len(tblLog) :
        LET t == tblLog[k].table
            g == tblLog[k].grid
        IN  /\ Len(t) = 2 /\ Len(t[1]) = 1 /\ Len(t[2]) = 2
            /\ t[1][1].inner = <<>> /\ t[2][1].inner = <<>> /\ t[2][2].inner = <<>>
            /\ t[1][1].text = T_pad /\ t[2][2].text = T_pad
            /\ g.rows = 2 /\ g.cols = 2
            /\ g.cell[<<1, 1>>] = <<"y">>
            /\ g.cell[<<1, 2>>] = <<>>
            /\ g.cell[<<2, 2>>] = <<"y">>

----------------------------------------------------------------------------
(* C9 *)

\* the encoding and error mode of the text the returned string was decoded
\* with; <<>> for the empty string of a failed read
How(r) == IF r.step = 0 THEN <<>> ELSE <<r.enc, r.errors>>

\* C9 as stated: the result is that of the first step that succeeds among
\* (1) strict UTF-8, (2) the detected encoding, taken only when its
\* confidence exceeds 0.7, gb2312 read as gb18030, (3) the ladder gbk,
\* gb18030, big5, utf-16, latin-1, (4) lenient UTF-8; empty only when every
\* step failed.
C9_FirstSuccessfulStep ==
    rdOut # <<>> =>
        LET f == rdFile[1]
            detected == IF f.detected = "GB2312" THEN "gb18030"
                        ELSE IF f.detected = "Big5" THEN "big5"
                        ELSE IF f.detected = "Windows-1252" THEN "windows-1252"
                        ELSE "euc-tw"
        IN  How(rdOut[1]) =
                IF ~f.readable THEN <<>>
                ELSE IF f.utf8 THEN <<"utf-8", "strict">>
                ELSE IF f.detector = "ok" /\ f.confidence > 70 /\ detected # "euc-tw"
                     THEN <<detected, "ignore">>
                ELSE <<"gbk", "ignore">>

\* C9 (amended): read_html_file never raises and always returns text: (1)
\* the strict UTF-8 decode when it succeeds; otherwise (2) a lenient decode
\* with the encoding detect_encoding returns - the detected encoding when its
\* confidence exceeds 0.7 (gb2312 read as gb18030), else the first of utf-8,
\* gbk, gb18030, big5 that strictly decodes the sample, else utf-8 (also
\* when the detector raises); (3) the ladder gbk, gb18030, big5, utf-16,
\* latin-1 only when the encoding of step 2 is one open() rejects; the empty
\* string when the file cannot be opened.
C9_DetectedOrSampledEncoding ==
    rdOut # <<>> =>
        LET f == rdFile[1]
            detected == IF f.detected = "GB2312" THEN "gb18030"
                        ELSE IF f.detected = "Big5" THEN "big5"
                        ELSE IF f.detected = "Windows-1252" THEN "windows-1252"
                        ELSE "euc-tw"
            sampled  == IF "utf-8" \in f.sample THEN "utf-8"
                        ELSE IF "gbk" \in f.sample THEN "gbk"
                        ELSE IF "gb18030" \in f.sample THEN "gb18030"
                        ELSE IF "big5" \in f.sample THEN "big5"
                        ELSE "utf-8"
        IN  How(rdOut[1]) =
                IF ~f.readable THEN <<>>
                ELSE IF f.utf8 THEN <<"utf-8", "strict">>
                ELSE IF f.detector = "raise" THEN <<"utf-8", "ignore">>
                ELSE IF f.confidence > 70
                     THEN IF detected = "euc-tw" THEN <<"gbk", "ignore">>
                          ELSE <<detected, "ignore">>
                ELSE <<sampled, "ignore">>

C9_Witness ==
    /\ rdOut # <<>>
    /\ rdFile[1].readable /\ ~rdFile[1].utf8 /\ rdFile[1].detector = "ok"
    /\ rdFile[1].confidence = 70
    /\ rdFile[1].sample = {"big5"}
    /\ How(rdOut[1]) = <<"big5", "ignore">>

----------------------------------------------------------------------------
(* C11 *)

\* the base name of the html file the folder is sought for
FolderBase == IF fdHtml = N_b_html THEN <<"b">> ELSE <<"B">>

\* the conventional sibling names, in the order they are tried
Conventional ==
    <<FolderBase \o <<"_", "f", "i", "l", "e", "s">>,
      FolderBase \o <<".", "f", "i", "l", "e", "s">>,
      FolderBase,
      <<"f", "i", "l", "e", "s">>,
      <<"i", "m", "a", "g", "e", "s">>,
      <<"i", "m", "a", "g", "e">>,
      <<"i", "m", "g">>>>

IsDirectory(name) ==
    \E i \in 1..Len(fdListing) : fdListing[i].name = name /\ fdListing[i].isdir

\* the name, compared case-insensitively, contains the base name and one of
\* 'file', 'image'
MediaFolderOf(name) ==
    /\ Contains(Lower(name), Lower(FolderBase))
    /\ Contains(Lower(name), <<"f", "i", "l", "e">>)
         \/ Contains(Lower(name), <<"i", "m", "a", "g", "e">>)

\* C11: find_associated_files_folder returns the first existing directory
\* among <base>_files, <base>.files, <base>, files, images, image, img in that
\* order; if none exists, the first directory of the parent whose name,
\* compared case-insensitively, contains the base name and one of 'file',
\* 'image'; otherwise none.
C11_ConventionalElseSimilarFolder ==
    fdOut # <<>> =>
        LET C == {k \in 1..7 : IsDirectory(Conventional[k])}
            F == {i \in 1..Len(fdListing) :
                     fdListing[i].isdir /\ MediaFolderOf(fdListing[i].name)}
        IN  fdOut[1] =
                IF C # {} THEN <<Conventional[CHOOSE k \in C : \A m \in C : k <= m]>>
                ELSE IF F # {} THEN <<fdListing[CHOOSE i \in F : \A m \in F : i <= m].name>>
                ELSE <<>>

----------------------------------------------------------------------------
(* C12 *)

\* the statistics are about to be read: by generate_summary_report, by
\* display_summary, by safe_exit
StatisticsRead == pc \in {"report", "display", "finally", "deps_failed"}

\* C12: whenever the run statistics are read, after an interrupted or failed
\* run too, total_files = success_files + len(failed_files).
C12_CountsBalanceWhenRead ==
    StatisticsRead => total_files = success_files + Len(failed_files)

----------------------------------------------------------------------------
(* C13 *)

\* the children the p branch handles one by one
HandledNames == {"#text", "b", "strong", "i", "em", "u", "a", "img"}

HandledChildren(p) == {i \in 1..Len(p) : p[i].name \in HandledNames}

\* the paragraph's whole text, as the strings beneath it stripped and joined
WholeText(p) ==
    LET T(c) == IF c.text \in {P_ws, <<>>} THEN <<>>
                ELSE IF c.text = T_pad THEN <<"y">> ELSE c.text
    IN  IF Len(p) = 0 THEN <<>>
        ELSE IF Len(p) = 1 THEN T(p[1])
        ELSE T(p[1]) \o T(p[2])

\* C13: for a p element with non-empty text, the whole text is added as a run
\* only when no child was handled individually; otherwise the paragraph has
\* exactly one run per handled child and the text is not emitted again.
C13_OneRunPerHandledChild ==
    \A k \in 1..Len(paLog) :
        LET p    == paLog[k].p
            doc  == paLog[k].after
            runs == doc[Len(doc)].runs
        IN  (WholeText(p) # <<>> /\ ~paLog[k].raised) =>
              /\ Len(doc) = Len(paLog[k].before) + 1
              /\ IF HandledChildren(p) = {}
                 THEN Len(runs) = 1 /\ runs[1].kind = "plain" /\ runs[1].of = WholeText(p)
                 ELSE Len(runs) = Cardinality(HandledChildren(p))

----------------------------------------------------------------------------
(* C14 *)

Marker == "conversion_completed.txt"

\* the artifacts run() itself writes before its finally clause
RunArtifacts == {"conversion_summary", "operation_interrupted.txt", "error_report.txt"}

\* run() was entered and is over
RunOver == pc \in {"main_except", "done"} /\ failure # "startup"

\* C14 as stated: on every path through run(), safe_exit is invoked exactly
\* once and last, so the completion marker is written once and, on the
\* interrupt and exception paths, after the interruption or error file.
C14_SafeExitOnceOnEveryPath ==
    RunOver =>
        /\ exits = 1
        /\ \A i, j \in 1..Len(written) :
              (written[i] = Marker /\ written[j] \in RunArtifacts) => j < i

\* C14 (amended): safe_exit is never invoked twice; a run whose dependency
\* check returned (failed or passed) ends with exactly one invocation, made
\* after everything run() itself writes, so the marker is written at most once
\* and follows the interruption or error file when that file was written; a
\* run interrupted during the dependency check ends without any invocation and
\* without a marker; after safe_exit only main() may still write
\* startup_error.txt.
C14_SafeExitOnceAfterDependencyCheck ==
    /\ exits \in {0, 1}
    /\ Count(written, Marker) <= exits
    /\ exits = 1 => pc \in {"main_except", "done"}
    /\ (RunOver /\ failure \in {"none", "deps", "ki", "exc"}) => exits = 1
    /\ (RunOver /\ failure = "killed") => exits = 0
    /\ \A i, j \in 1..Len(written) :
          (written[i] = Marker /\ written[j] \in RunArtifacts) => j < i

C14_Witness ==
    /\ pc = "done"
    /\ failure = "ki"
    /\ exits = 1
    /\ total_files = 1
    /\ written = <<"operation_interrupted.txt", Marker>>

====
